---- MODULE Spec2Model ----
(***************************************************************************)
(* Model of compiler/tools/test_runner.py: the test harness of the        *)
(* gallium compiler.  main() creates the workspace __tmp, discovers and   *)
(* parses the test files, runs every test (compile, then verify) in a     *)
(* multiprocessing pool, prints the report and removes the workspace.     *)
(*                                                                         *)
(* Python strings are TLA+ strings; positions are 1-based here, so a      *)
(* Python index p is the position p + 1.  Python's None is the value None, *)
(* a raised exception is a record [raised |-> <exception name>].          *)
(***************************************************************************)
EXTENDS Integers, Sequences, FiniteSets, TLC

\* ------------------------------------------------------------------------
\* Bounds of the model.

\* The largest number of test files under the discovery root.
MaxFiles == 2

\* How many times the harness is started on the same corpus.
MaxRuns == 2

\* ------------------------------------------------------------------------
\* Python's str methods, as far as the harness uses them.

Whitespace == {" ", "\t", "\n", "\r"}

CharAt(s, i) == SubSeq(s, i, i)

\* s[i:] for a 1-based position i.
From(s, i) == SubSeq(s, i, Len(s))

\* str.index(sub, start): the first position >= start where sub occurs in s,
\* 0 when there is none (Python raises ValueError).
index(s, sub, start) ==
    LET hits == {i \in start..(Len(s) - Len(sub) + 1) :
                     SubSeq(s, i, i + Len(sub) - 1) = sub}
    IN  IF hits = {} THEN 0 ELSE CHOOSE i \in hits : \A j \in hits : i <= j

\* str.strip(): leading and trailing whitespace removed.
strip(s) ==
    LET ink == {i \in 1..Len(s) : CharAt(s, i) \notin Whitespace}
    IN  IF ink = {} THEN ""
        ELSE SubSeq(s, CHOOSE i \in ink : \A j \in ink : i <= j,
                       CHOOSE i \in ink : \A j \in ink : i >= j)

\* str.replace(old, new) for a one-character old.
RECURSIVE replace(_, _, _)
replace(s, old, new) ==
    IF s = "" THEN ""
    ELSE (IF CharAt(s, 1) = old THEN new ELSE CharAt(s, 1))
             \o replace(From(s, 2), old, new)

\* s.split(sep)[1] exists: sep occurs in s (otherwise Python raises
\* IndexError).
splits(s, sep) == index(s, sep, 1) # 0

\* s.split(sep)[1]: what stands between the first and the second occurrence
\* of sep (or the end of s).
split_1(s, sep) ==
    LET first == index(s, sep, 1)
        rest  == From(s, first + Len(sep))
        next  == index(rest, sep, 1)
    IN  IF next = 0 THEN rest ELSE SubSeq(rest, 1, next - 1)

Digits == <<"0", "1", "2", "3", "4", "5", "6", "7", "8", "9">>

IsDigit(c) == \E d \in 1..10 : Digits[d] = c

DigitValue(c) == (CHOOSE d \in 1..10 : Digits[d] = c) - 1

RECURSIVE DecimalValue(_)
DecimalValue(s) ==
    IF s = "" THEN 0
    ELSE 10 * DecimalValue(SubSeq(s, 1, Len(s) - 1)) + DigitValue(CharAt(s, Len(s)))

\* The digits of int(s): surrounding whitespace and an optional sign removed.
int_digits(s) ==
    LET t == strip(s)
    IN  IF t # "" /\ CharAt(t, 1) \in {"+", "-"} THEN From(t, 2) ELSE t

\* int(s) does not raise ValueError: an optional sign and at least one
\* decimal digit, whitespace around them ignored.
is_int(s) ==
    /\ int_digits(s) # ""
    /\ \A i \in 1..Len(int_digits(s)) : IsDigit(CharAt(int_digits(s), i))

int(s) ==
    IF CharAt(strip(s), 1) = "-" THEN 0 - DecimalValue(int_digits(s))
    ELSE DecimalValue(int_digits(s))

\* str(n) of an integer, as an f-string formats it.
RECURSIVE NatStr(_)
NatStr(n) == IF n < 10 THEN Digits[n + 1] ELSE NatStr(n \div 10) \o Digits[(n % 10) + 1]

str(n) == IF n < 0 THEN "-" \o NatStr(0 - n) ELSE NatStr(n)

\* ------------------------------------------------------------------------
\* Values of the harness.  An outcome is None (pass) or a failure reason; a
\* call that raises yields Raise(<exception>).

None == [none |-> TRUE]

Fail(reason) == [reason |-> reason]

Raise(e) == [raised |-> e]

IsRaise(v) == "raised" \in DOMAIN v

\* ------------------------------------------------------------------------
\* The pure functions of test_runner.py.

\* os.walk's root, "./tests/compiler/"; a discovered file is root + name.
Root == "./tests/compiler/"

path_join(root, name) == root \o name

\* os.path.relpath(path, "./tests/compiler/") of a discovered file.
relpath(path) == From(path, Len(Root) + 1)

\* The artifact path of execute_test: the workspace directory joined with
\* the source path, both separators replaced by "_".
artifact_path(file) == "__tmp/" \o replace(replace(file, "/", "_"), "\\", "_")

\* compile_file returns the compiler's decoded stdout.  The compiler is an
\* external program: what it prints for a source file is part of the
\* corpus (field cout).
compile_file(source) == source.cout

\* The compiler's side of the contract: it leaves an artifact at --out
\* exactly when it reports no diagnostic.
emits_artifact(source) == strip(source.cout) = ""

\* lines[k] of read_test holds the marker, so split(marker)[1] exists.
has_field(lines, k, marker) == k <= Len(lines) /\ splits(lines[k], marker)

\* read_test on the text of a file: <<test, args>> as a record, or the
\* exception raised.
read_test(text) ==
    LET lines == [k \in 1..Len(text) |-> strip(text[k])]
    IN  IF ~has_field(lines, 1, "// test: ") THEN Raise("IndexError")
        ELSE LET test == strip(split_1(lines[1], "// test: "))
             IN  CASE test = "should-run" ->
                        IF /\ has_field(lines, 2, "// returns: ")
                           /\ has_field(lines, 3, "// outputs: ")
                        THEN [test |-> test,
                              args |-> <<split_1(lines[2], "// returns: "),
                                         split_1(lines[3], "// outputs: ")>>]
                        ELSE Raise("IndexError")
                   [] test = "should-fail-compile" -> Raise("AssertionError")
                   [] test = "should-panic" ->
                        IF has_field(lines, 2, "// reason: ")
                        THEN [test |-> test,
                              args |-> <<split_1(lines[2], "// reason: ")>>]
                        ELSE Raise("IndexError")
                   [] test = "should-assert" ->
                        IF has_field(lines, 2, "// reason: ")
                        THEN [test |-> test,
                              args |-> <<split_1(lines[2], "// reason: ")>>]
                        ELSE Raise("IndexError")
                   [] OTHER -> Raise("AssertionError")

\* read_test prints "unknown test type" before its second assert False.
prints_unknown(text) ==
    LET lines == [k \in 1..Len(text) |-> strip(text[k])]
    IN  /\ has_field(lines, 1, "// test: ")
        /\ strip(split_1(lines[1], "// test: ")) \notin
               {"should-run", "should-fail-compile", "should-panic", "should-assert"}

\* The backquote of the failure reasons: a TLA+ string cannot hold that
\* character, so it is written as a circumflex.
Backquote == "^"

\* execute_should_run with the two tests in the other order: the output is
\* compared before the return code.
execute_should_run_output_first(run, args) ==
    IF ~is_int(args[1]) THEN Raise("ValueError")
    ELSE IF args[2] # "none" /\ args[2] # run.sout
    THEN Fail("output did not match! expected " \o Backquote \o args[2]
                  \o Backquote \o " but got " \o Backquote \o run.sout
                  \o Backquote)
    ELSE IF int(args[1]) # run.code
    THEN Fail("return code did not match! expected " \o Backquote \o args[1]
                  \o Backquote \o " but got " \o Backquote \o str(run.code)
                  \o Backquote)
    ELSE None

\* execute_should_run without the sentinel: the expected output is always
\* compared.
execute_should_run_no_sentinel(run, args) ==
    IF ~is_int(args[1]) THEN Raise("ValueError")
    ELSE IF int(args[1]) # run.code
    THEN Fail("return code did not match! expected " \o Backquote \o args[1]
                  \o Backquote \o " but got " \o Backquote \o str(run.code)
                  \o Backquote)
    ELSE IF args[2] # run.sout
    THEN Fail("output did not match! expected " \o Backquote \o args[2]
                  \o Backquote \o " but got " \o Backquote \o run.sout
                  \o Backquote)
    ELSE None

\* execute_should_run on what the artifact's run gave (run.code, run.sout).
execute_should_run(run, args) ==
    IF ~is_int(args[1]) THEN Raise("ValueError")
    ELSE IF int(args[1]) # run.code
    THEN Fail("return code did not match! expected " \o Backquote \o args[1]
                  \o Backquote \o " but got " \o Backquote \o str(run.code)
                  \o Backquote)
    ELSE IF args[2] # "none" /\ args[2] # run.sout
    THEN Fail("output did not match! expected " \o Backquote \o args[2]
                  \o Backquote \o " but got " \o Backquote \o run.sout
                  \o Backquote)
    ELSE None

PanicMarker == "gallium: panicked!"

MessageMarker == "  message: '"

\* find_reason with the message searched from the start of the output, not
\* from the panic marker.
find_reason_from_start(output) ==
    LET panic_begin   == index(output, PanicMarker, 1)
        message_begin == IF panic_begin = 0 THEN 0
                         ELSE index(output, MessageMarker, 1)
        begin_quote   == IF message_begin = 0 THEN 0
                         ELSE index(output, "'", message_begin)
        end_quote     == IF begin_quote = 0 THEN 0
                         ELSE index(output, "'", begin_quote + 1)
    IN  IF end_quote = 0 THEN None
        ELSE [found |-> SubSeq(output, begin_quote + 1, end_quote - 1)]

\* find_reason: the text between the quotes, as [found |-> text], or None
\* when one of the four str.index calls raises ValueError.
find_reason(output) ==
    LET panic_begin   == index(output, PanicMarker, 1)
        message_begin == IF panic_begin = 0 THEN 0
                         ELSE index(output, MessageMarker, panic_begin)
        begin_quote   == IF message_begin = 0 THEN 0
                         ELSE index(output, "'", message_begin)
        end_quote     == IF begin_quote = 0 THEN 0
                         ELSE index(output, "'", begin_quote + 1)
    IN  IF end_quote = 0 THEN None
        ELSE [found |-> SubSeq(output, begin_quote + 1, end_quote - 1)]

\* execute_should_panic on what the artifact's run gave (run.serr).
execute_should_panic(run, args) ==
    LET reason == find_reason(run.serr)
    IN  IF reason = None THEN Fail("expected a panic, but did not get one!")
        ELSE IF reason.found # args[1]
        THEN Fail("expected reason " \o Backquote \o args[1] \o Backquote
                      \o ", but got reason " \o Backquote \o reason.found
                      \o Backquote)
        ELSE None

\* The compiler's output tested without strip().
compile_failed_unstripped(compile_output) == Len(compile_output) # 0

\* The compiler's output counts as an error (execute_test, lines 100, 105).
compile_failed(compile_output) == Len(strip(compile_output)) # 0

\* execute_test after compile_file returned: the match on the test type.
\* run is what running the artifact at out gives; it is used only on the
\* branches that run it.
execute_test(test, args, compile_output, run) ==
    CASE test = "should-run" ->
            IF compile_failed(compile_output) THEN Fail("error from compiler!")
            ELSE execute_should_run(run, args)
      [] test = "should-panic" ->
            IF compile_failed(compile_output) THEN Fail("error from compiler!")
            ELSE execute_should_panic(run, args)
      [] OTHER -> Raise("AssertionError")

\* execute_test starts the artifact: a test type with a verifier, and no
\* compile error.
runs_artifact(test, compile_output) ==
    test \in {"should-run", "should-panic"} /\ ~compile_failed(compile_output)

\* Pool.map as imap_unordered would give it: the return values in the order
\* the tasks finished.
pool_map_unordered(returned, finished) ==
    [k \in 1..Len(finished) |-> returned[finished[k]]]

\* multiprocessing's Pool.map: the list of the tasks' return values, aligned
\* with the list of tests whatever the order in which the tasks finished.
pool_map(returned, finished) == returned

\* The first exception Pool.map stored: that of the first task to finish
\* with one.
first_raised(returned, finished) ==
    LET k == CHOOSE k \in 1..Len(finished) :
                 /\ IsRaise(returned[finished[k]])
                 /\ \A j \in 1..(k - 1) : ~IsRaise(returned[finished[j]])
    IN  returned[finished[k]].raised

\* ------------------------------------------------------------------------
\* The corpus: the test files under the discovery root, in os.walk's order.
\* A source file is its name below the root, its text (readlines), and
\* what the external programs do with it: the compiler's stdout (cout), and
\* the exit code, stdout and stderr of the artifact compiled from it.

RunText(returns, outputs) ==
    << "// test: should-run\n",
       "// returns: " \o returns \o "\n",
       "// outputs: " \o outputs \o "\n",
       "fn main() -> i32 {}\n" >>

ReasonText(type, reason) ==
    << "// test: " \o type \o "\n",
       "// reason: " \o reason \o "\n",
       "fn main() {}\n" >>

Panic(reason) == "gallium: panicked!\n  message: '" \o reason \o "'\n"

\* The artifact of a source exits when run (halts), unless it is Hanging.
Source(text, cout, code, sout, serr) ==
    [text |-> text, cout |-> cout, code |-> code, sout |-> sout, serr |-> serr,
     halts |-> TRUE]

\* The source with an artifact that never exits.
Hanging(source) == [source EXCEPT !.halts = FALSE]

\* The sources of the multi-file runs.
Sources ==
    { Source(RunText("0", "none"), "", 0, "", ""),
      Source(RunText("0", "3"), "", 1, "3", ""),
      Source(ReasonText("should-panic", "x"), "", 1, "", Panic("x")),
      Source(ReasonText("should-assert", "x"), "", 1, "", Panic("x")),
      Source(<<"// test: should-fail-compile\n", "// errors: 1\n">>,
             "E#0001", 0, "", ""),
      Source(RunText("x", "none"), "", 0, "", ""),
      Hanging(Source(RunText("0", "none"), "", 0, "", "")) }

\* The names below the root: two files of the root directory and one of
\* its subdirectory a.
Names == {"a_b", "c", "a/b"}

InSubdirectory(name) == index(name, "/", 1) # 0

\* os.walk is top-down: the files of the root come before those of its
\* subdirectories, and no name comes twice.
WalkOrder(names) ==
    /\ \A i, j \in 1..Len(names) : i # j => names[i] # names[j]
    /\ \A i, j \in 1..Len(names) :
           InSubdirectory(names[i]) /\ ~InSubdirectory(names[j]) => j < i

File(name, source) ==
    [name |-> name, text |-> source.text, cout |-> source.cout,
     code |-> source.code, sout |-> source.sout, serr |-> source.serr,
     halts |-> source.halts]

Corpora ==
    UNION { { [k \in 1..n |-> File(names[k], sources[k])] :
                names \in {ns \in [1..n -> Names] : WalkOrder(ns)},
                sources \in [1..n -> Sources] } : n \in 0..MaxFiles }

\* A leftover of an earlier run found in the workspace directory.
Leftover == [p \in {"__tmp/leftover"} |-> 0]

NoFiles == [p \in {} |-> 0]

\* ------------------------------------------------------------------------
\* The state.

VARIABLES
    corpus,     \* the test files on disk, in discovery order
    dir,        \* TRUE while the directory __tmp exists
    files,      \* the files in __tmp: path |-> index of the source compiled
    run,        \* how many times the harness was started
    prev,       \* what the previous run of the harness ended with
    pc,         \* where main stands
    error,      \* the exception propagating out of main, or "none"
    tests,      \* main's list tests
    tpc,        \* each pool task: "queued", "compiled" or "done"
    returned,   \* each pool task's return value of execute_test
    ran,        \* each pool task: what its run of the artifact gave
    finished,   \* the pool tasks in the order they finished
    results,    \* what parallel_execute returned
    line,       \* the index of the report loop (line 133)
    failures,   \* main's list failures
    detail,     \* the index of the loop over failures (line 143)
    printed,    \* what main printed, in order
    removed     \* the calls of shutil.rmtree of this run, by where they stand

disk == <<dir, files>>

pool == <<tpc, returned, ran, finished>>

report == <<results, line, failures, detail, printed>>

vars == <<corpus, dir, files, run, prev, pc, error, tests, tpc, returned, ran,
          finished, results, line, failures, detail, printed, removed>>

NotRun == [none |-> TRUE]

\* The state main starts in.
Start ==
    /\ pc = "mkdir"
    /\ error = "none"
    /\ tests = <<>>
    /\ tpc = <<>>
    /\ returned = <<>>
    /\ ran = <<>>
    /\ finished = <<>>
    /\ results = <<>>
    /\ line = 1
    /\ failures = <<>>
    /\ detail = 1
    /\ printed = <<>>
    /\ removed = <<>>

Init ==
    /\ corpus \in Corpora
    /\ \/ dir = FALSE /\ files = NoFiles
       \/ dir = TRUE /\ files = Leftover
    /\ run = 1
    /\ prev = <<>>
    /\ Start

\* ------------------------------------------------------------------------
\* main, lines 118 to 152.

\* shutil.rmtree(path): the directory and all it holds are gone.
rmtree(at) ==
    /\ dir' = FALSE
    /\ files' = NoFiles
    /\ removed' = Append(removed, at)

\* The workspace made as os.makedirs(path, exist_ok=True) would: a
\* directory that is there already is taken over.
Mkdir_exist_ok ==
    /\ pc = "mkdir"
    /\ dir' = TRUE
    /\ pc' = "walk"
    /\ UNCHANGED <<error, removed>>
    /\ UNCHANGED <<corpus, files, run, prev, tests, pool, report>>

\* Line 123, os.mkdir(path), before the try: FileExistsError when the
\* directory is there already.
Mkdir ==
    /\ pc = "mkdir"
    /\ IF dir
       THEN /\ error' = "FileExistsError"
            /\ pc' = "exit"
            /\ UNCHANGED dir
       ELSE /\ dir' = TRUE
            /\ pc' = "walk"
            /\ UNCHANGED error
    /\ UNCHANGED removed
    /\ UNCHANGED <<corpus, files, run, prev, tests, pool, report>>

\* Lines 126 to 129, one file of the walk: read_test, and the triple
\* appended to tests.  An exception of read_test leaves the try block.
Discover ==
    /\ pc = "walk"
    /\ Len(tests) < Len(corpus)
    /\ LET file == corpus[Len(tests) + 1]
           read == read_test(file.text)
       IN  IF IsRaise(read)
           THEN /\ error' = read.raised
                /\ pc' = "handler"
                /\ printed' = IF prints_unknown(file.text)
                              THEN Append(printed, [kind |-> "unknown test type"])
                              ELSE printed
                /\ UNCHANGED tests
           ELSE /\ tests' = Append(tests, [file |-> path_join(Root, file.name),
                                           test |-> read.test,
                                           args |-> read.args])
                /\ UNCHANGED <<error, pc, printed>>
    /\ UNCHANGED removed
    /\ UNCHANGED <<corpus, disk, run, prev, pool, results, line, failures, detail>>

\* The pool started on the tests read so far, before the walk is over.
Submit_early ==
    /\ pc = "walk"
    /\ pc' = "pool"
    /\ tpc' = [i \in 1..Len(tests) |-> "queued"]
    /\ returned' = [i \in 1..Len(tests) |-> NotRun]
    /\ ran' = [i \in 1..Len(tests) |-> NotRun]
    /\ finished' = <<>>
    /\ UNCHANGED removed
    /\ UNCHANGED <<corpus, disk, run, prev, error, tests, report>>

\* Line 133, parallel_execute(tests): every test is submitted to the pool.
Submit ==
    /\ pc = "walk"
    /\ Len(tests) = Len(corpus)
    /\ pc' = "pool"
    /\ tpc' = [i \in 1..Len(tests) |-> "queued"]
    /\ returned' = [i \in 1..Len(tests) |-> NotRun]
    /\ ran' = [i \in 1..Len(tests) |-> NotRun]
    /\ finished' = <<>>
    /\ UNCHANGED removed
    /\ UNCHANGED <<corpus, disk, run, prev, error, tests, report>>

\* A pool worker in execute_test, lines 94 to 96: the compiler has run on
\* the test's file and left its artifact at the artifact path.
Compile(i) ==
    /\ pc = "pool"
    /\ tpc[i] = "queued"
    /\ tpc' = [tpc EXCEPT ![i] = "compiled"]
    /\ LET out == artifact_path(tests[i].file)
       IN  files' = IF emits_artifact(corpus[i])
                    THEN [p \in DOMAIN files \cup {out} |->
                             IF p = out THEN i ELSE files[p]]
                    ELSE files
    /\ UNCHANGED removed
    /\ UNCHANGED <<corpus, dir, run, prev, pc, error, tests, returned, ran,
                   finished, report>>

\* What running the file at the artifact path gives: the behaviour of the
\* artifact last written there.
run_artifact(out) ==
    LET source == corpus[files[out]]
    IN  [code |-> source.code, sout |-> source.sout, serr |-> source.serr]

\* The run of the file at the artifact path comes to an end: subprocess.run
\* has no timeout and returns only then.
exits(out) == corpus[files[out]].halts

\* A pool worker in execute_test, lines 98 to 110: the match on the test
\* type, the run of the artifact and the task's return value.
Verify(i) ==
    /\ pc = "pool"
    /\ tpc[i] = "compiled"
    /\ runs_artifact(tests[i].test, compile_file(corpus[i])) =>
           exits(artifact_path(tests[i].file))
    /\ LET out == artifact_path(tests[i].file)
           compile_output == compile_file(corpus[i])
           result == IF runs_artifact(tests[i].test, compile_output)
                     THEN run_artifact(out)
                     ELSE NotRun
       IN  /\ ran' = [ran EXCEPT ![i] = result]
           /\ returned' = [returned EXCEPT ![i] =
                  execute_test(tests[i].test, tests[i].args, compile_output, result)]
    /\ tpc' = [tpc EXCEPT ![i] = "done"]
    /\ finished' = Append(finished, i)
    /\ UNCHANGED removed
    /\ UNCHANGED <<corpus, disk, run, prev, pc, error, tests, report>>

\* Pool.map as it was before Python 3.8: the first exception of a task is
\* raised at once, while other tasks are still running.
PoolReturn_early ==
    /\ pc = "pool"
    /\ \/ \A i \in 1..Len(tests) : tpc[i] = "done"
       \/ \E i \in 1..Len(tests) : IsRaise(returned[i])
    /\ IF \E i \in 1..Len(tests) : IsRaise(returned[i])
       THEN /\ error' = first_raised(returned, finished)
            /\ pc' = "handler"
            /\ UNCHANGED results
       ELSE /\ results' = pool_map(returned, finished)
            /\ pc' = "report"
            /\ UNCHANGED error
    /\ UNCHANGED removed
    /\ UNCHANGED <<corpus, disk, run, prev, tests, pool, line, failures,
                   detail, printed>>

\* Lines 113 to 115: Pool.map returns once every task is done, with the
\* list of return values, or raises the first exception a task raised.
PoolReturn ==
    /\ pc = "pool"
    /\ \A i \in 1..Len(tests) : tpc[i] = "done"
    /\ IF \E i \in 1..Len(tests) : IsRaise(returned[i])
       THEN /\ error' = first_raised(returned, finished)
            /\ pc' = "handler"
            /\ UNCHANGED results
       ELSE /\ results' = pool_map(returned, finished)
            /\ pc' = "report"
            /\ UNCHANGED error
    /\ UNCHANGED removed
    /\ UNCHANGED <<corpus, disk, run, prev, tests, pool, line, failures,
                   detail, printed>>

\* The report loop with failures.insert(0, ...) for failures.append(...).
ReportLine_prepend ==
    /\ pc = "report"
    /\ line <= Len(results)
    /\ LET test_path == relpath(tests[line].file)
       IN  IF results[line] = None
           THEN /\ printed' = Append(printed, [kind |-> "passed", path |-> test_path])
                /\ UNCHANGED failures
           ELSE /\ printed' = Append(printed, [kind |-> "failed", path |-> test_path])
                /\ failures' = <<<<line, results[line]>>>> \o failures
    /\ line' = line + 1
    /\ UNCHANGED removed
    /\ UNCHANGED <<corpus, disk, run, prev, pc, error, tests, pool, results, detail>>

\* Lines 133 to 140, one pass of the loop: the pass/fail line of result i.
ReportLine ==
    /\ pc = "report"
    /\ line <= Len(results)
    /\ LET test_path == relpath(tests[line].file)
       IN  IF results[line] = None
           THEN /\ printed' = Append(printed, [kind |-> "passed", path |-> test_path])
                /\ UNCHANGED failures
           ELSE /\ printed' = Append(printed, [kind |-> "failed", path |-> test_path])
                /\ failures' = Append(failures, <<line, results[line]>>)
    /\ line' = line + 1
    /\ UNCHANGED removed
    /\ UNCHANGED <<corpus, disk, run, prev, pc, error, tests, pool, results, detail>>

\* The loop of line 133 ends.
ReportEnd ==
    /\ pc = "report"
    /\ line > Len(results)
    /\ pc' = "details"
    /\ UNCHANGED removed
    /\ UNCHANGED <<corpus, disk, run, prev, error, tests, pool, report>>

\* Lines 143 to 147, one pass of the loop: the three lines of a failure.
Detail ==
    /\ pc = "details"
    /\ detail <= Len(failures)
    /\ LET i == failures[detail][1]
           result == failures[detail][2]
       IN  printed' = Append(printed, [kind |-> "failure",
                                       path |-> relpath(tests[i].file),
                                       type |-> tests[i].test,
                                       reason |-> result.reason])
    /\ detail' = detail + 1
    /\ UNCHANGED removed
    /\ UNCHANGED <<corpus, disk, run, prev, pc, error, tests, pool, results,
                   line, failures>>

\* The loop of line 143 ends (or line 142 finds no failure): the try block
\* is left normally.
DetailsEnd ==
    /\ pc = "details"
    /\ detail > Len(failures)
    /\ pc' = "cleanup"
    /\ UNCHANGED removed
    /\ UNCHANGED <<corpus, disk, run, prev, error, tests, pool, report>>

\* The handler without its raise: control goes on to line 152.
Handler_no_raise ==
    /\ pc = "handler"
    /\ rmtree("handler")
    /\ pc' = "cleanup"
    /\ UNCHANGED <<corpus, run, prev, error, tests, pool, report>>

\* Lines 148 to 150: the handler removes the workspace and raises again.
Handler ==
    /\ pc = "handler"
    /\ rmtree("handler")
    /\ pc' = "exit"
    /\ UNCHANGED <<corpus, run, prev, error, tests, pool, report>>

\* Line 152: the workspace is removed after the try statement.
Cleanup ==
    /\ pc = "cleanup"
    /\ rmtree("cleanup")
    /\ pc' = "exit"
    /\ UNCHANGED <<corpus, run, prev, error, tests, pool, report>>

\* Lines 155 and 156: the exit status of the process once main has ended.
\* main returns nothing and never calls sys.exit, so the status is 0 unless
\* an exception leaves main, which makes the interpreter exit with 1.
exit_status == IF error = "none" THEN 0 ELSE 1

\* What a run of the harness ended with.
Ended == [error |-> error, results |-> results, printed |-> printed]

\* Lines 155 and 156: the harness is started again on the same corpus.
Rerun ==
    /\ pc = "exit"
    /\ run < MaxRuns
    /\ run' = run + 1
    /\ prev' = Append(prev, Ended)
    /\ pc' = "mkdir"
    /\ error' = "none"
    /\ tests' = <<>>
    /\ tpc' = <<>>
    /\ returned' = <<>>
    /\ ran' = <<>>
    /\ finished' = <<>>
    /\ results' = <<>>
    /\ line' = 1
    /\ failures' = <<>>
    /\ detail' = 1
    /\ printed' = <<>>
    /\ removed' = <<>>
    /\ UNCHANGED <<corpus, disk>>

Task == \E i \in 1..Len(tests) : Compile(i) \/ Verify(i)

Next ==
    \/ Mkdir
    \/ Discover
    \/ Submit
    \/ Task
    \/ PoolReturn
    \/ ReportLine
    \/ ReportEnd
    \/ Detail
    \/ DetailsEnd
    \/ Handler
    \/ Cleanup
    \/ Rerun

Spec == Init /\ [][Next]_vars

\* ------------------------------------------------------------------------
\* Runs over a corpus of one file, for what is claimed of every single test:
\* the file is drawn from every combination of directive, compiler output
\* and artifact behaviour below.

Returns == {"0", "1", " 1", "x"}

Outputs == {"none", "3"}

CompilerOutputs == {"", " \n", "E#0001 error\n"}

ExitCodes == {0, 1}

Stdouts == {"", "3", "3\n", "none"}

RunSources ==
    { Source(RunText(r, o), c, e, out, "") :
        r \in Returns, o \in Outputs, c \in CompilerOutputs,
        e \in ExitCodes, out \in Stdouts }

Reasons == {"x", "x y"}

\* The artifact's stderr: what stands before the panic marker, the marker,
\* the message marker, the message and what closes it.
Stderrs ==
    { before \o marker \o "\n" \o message \o reason \o close :
        before \in {"", "  message: 'x'\n"},
        marker \in {"", PanicMarker, "gallium: Panicked!"},
        message \in {"", MessageMarker, " message: '"},
        reason \in {"x", "X", "x y", " x", "x'y"},
        close \in {"'\n", "\n"} }

ReasonSources ==
    { Source(ReasonText(t, r), c, 1, "", err) :
        t \in {"should-panic", "should-assert"}, r \in Reasons,
        c \in CompilerOutputs, err \in Stderrs }

DirectiveSources ==
    { Source(text, "", 0, "", "") :
        text \in { <<"// test: should-fail-compile\n", "// errors: 1\n">>,
                   <<"// test: should-crash\n", "// reason: x\n">>,
                   <<"// test: should-run\n", "// returns: 0\n">>,
                   <<"fn main() {}\n">>,
                   <<>> } }

InitOne ==
    /\ corpus \in { <<File("c", source)>> :
                      source \in RunSources \cup ReasonSources \cup DirectiveSources }
    /\ dir = FALSE
    /\ files = NoFiles
    /\ run = 1
    /\ prev = <<>>
    /\ Start

SpecOne == InitOne /\ [][Next]_vars

\* ------------------------------------------------------------------------
\* The claims.

Tasks == 1..Len(tpc)

Done(i) == i \in Tasks /\ tpc[i] = "done"

\* main got past parallel_execute: the pool returned a list.
Reporting == pc \in {"report", "details", "cleanup"} \/ (pc = "exit" /\ error = "none")

\* C1: whatever the order in which the pool's tasks finish, the i-th outcome
\* parallel_execute returns is the return value of the task of the i-th
\* discovered test, and the i-th line of the report names the i-th
\* discovered file with passed or failed according to that value.
C1_ReportInDiscoveryOrder ==
    Reporting =>
        /\ Len(results) = Len(corpus)
        /\ \A i \in 1..Len(results) : results[i] = returned[i]
        /\ \A i \in 1..(line - 1) :
               /\ printed[i].path = corpus[i].name
               /\ printed[i].kind = IF returned[i] = None THEN "passed" ELSE "failed"

\* C1's case: the second test finished first, the two outcomes differ, and
\* both lines are printed.
C1_Witness ==
    /\ Reporting
    /\ finished = <<2, 1>>
    /\ returned[1] # returned[2]
    /\ line = 3

\* C2: once main has ended, on whatever path, neither the directory __tmp
\* nor any file in it exists.
C2_NoWorkspaceAfterMain ==
    pc = "exit" => ~dir /\ files = NoFiles

\* C3: two distinct test files that run as tasks of one pool have different
\* artifact paths.
C3_DistinctArtifactPaths ==
    pc = "pool" =>
        \A i, j \in 1..Len(tests) :
            tests[i].file # tests[j].file =>
                artifact_path(tests[i].file) # artifact_path(tests[j].file)

\* A should-run or a should-panic task whose compilation succeeded.
Compiled(i, type) ==
    /\ Done(i)
    /\ tests[i].test = type
    /\ \A k \in 1..Len(corpus[i].cout) : CharAt(corpus[i].cout, k) \in Whitespace

\* C4: a should-run test with the expected return code R and the expected
\* output O whose compilation succeeded passes exactly when the artifact's
\* exit code is R and O is "none" or the artifact's stdout is O.
C4_ShouldRunPassIff ==
    \A i \in Tasks :
        Compiled(i, "should-run") /\ is_int(tests[i].args[1]) =>
            LET R == int(tests[i].args[1])
                O == tests[i].args[2]
            IN  returned[i] = None <=>
                    /\ corpus[i].code = R
                    /\ (O = "none" \/ corpus[i].sout = O)

\* C4's case: a test that expects an output other than "none" passed.
C4_Witness ==
    \E i \in Tasks :
        /\ Compiled(i, "should-run")
        /\ tests[i].args[2] # "none"
        /\ returned[i] = None

\* sub stands in s at position p.
Occurs(s, sub, p) ==
    /\ p >= 1
    /\ p + Len(sub) - 1 <= Len(s)
    /\ SubSeq(s, p, p + Len(sub) - 1) = sub

\* The position of the first occurrence of sub in s at or after position
\* from, as a set: empty when there is none.
FirstAt(s, sub, from) ==
    {p \in from..Len(s) :
        Occurs(s, sub, p) /\ \A k \in from..(p - 1) : ~Occurs(s, sub, k)}

\* The panic report of a stderr: the text between the quote that ends the
\* first message marker after the first panic marker and the next quote.
\* Empty when the marker, the message or its closing quote is missing.
Reported(err) ==
    UNION { UNION { { SubSeq(err, m + Len(MessageMarker), q - 1) :
                        q \in FirstAt(err, "'", m + Len(MessageMarker)) } :
                    m \in FirstAt(err, MessageMarker, p) } :
            p \in FirstAt(err, PanicMarker, 1) }

\* C5: a should-panic test with the expected reason T whose compilation
\* succeeded passes exactly when the artifact's stderr holds the panic
\* marker, later a message marker, and between that message's quotes exactly
\* T; with no such report its outcome is the failure "expected a panic, but
\* did not get one!".
C5_ShouldPanicPassIff ==
    \A i \in Tasks :
        Compiled(i, "should-panic") =>
            /\ returned[i] = None <=> tests[i].args[1] \in Reported(corpus[i].serr)
            /\ Reported(corpus[i].serr) = {} =>
                   returned[i] = Fail("expected a panic, but did not get one!")

\* C5's case: a should-panic test passed on a stderr that also holds a
\* message before the panic marker.
C5_Witness ==
    \E i \in Tasks :
        /\ Compiled(i, "should-panic")
        /\ returned[i] = None
        /\ index(corpus[i].serr, MessageMarker, 1)
               < index(corpus[i].serr, PanicMarker, 1)

\* The type a file's first line declares, when it has the directive.
Declares(text) ==
    /\ Len(text) >= 1
    /\ Occurs(strip(text[1]), "// test: ", 1)

DeclaredType(text) == strip(From(strip(text[1]), Len("// test: ") + 1))

\* A directive error: the reserved type or an unknown type.
DirectiveError(text) ==
    /\ Declares(text)
    /\ DeclaredType(text) \notin {"should-run", "should-panic", "should-assert"}

\* The report holds a pass/fail line for the file.
HasLine(name) ==
    \E k \in 1..Len(printed) :
        printed[k].kind \in {"passed", "failed"} /\ printed[k].path = name

\* C6: when a file of the corpus has a directive error (the reserved type
\* should-fail-compile or an unknown type), the run still ends with a
\* pass/fail line for every other file.  Stated for the other files of type
\* should-run and should-panic, whose tasks have a verifier.
C6_DirectiveErrorIsolated ==
    (pc = "exit" /\ error # "FileExistsError") =>
        \A i, j \in 1..Len(corpus) :
            /\ DirectiveError(corpus[j].text)
            /\ Declares(corpus[i].text)
            /\ DeclaredType(corpus[i].text) \in {"should-run", "should-panic"}
            => HasLine(corpus[i].name)

Blank(text) == \A k \in 1..Len(text) : CharAt(text, k) \in Whitespace

\* What the run of a file's own artifact gives.
OwnRun(i) ==
    [code |-> corpus[i].code, sout |-> corpus[i].sout, serr |-> corpus[i].serr]

\* C7 as claimed, for the tasks that have a verifier: any non-empty output
\* of the compiler, whitespace included, gives the compile-error failure
\* without a run of the artifact; empty output lets the artifact run.
C7_EmptyOutputIsSuccess ==
    \A i \in Tasks :
        Done(i) /\ tests[i].test \in {"should-run", "should-panic"} =>
            /\ corpus[i].cout # "" =>
                   returned[i] = Fail("error from compiler!") /\ ran[i] = NotRun
            /\ corpus[i].cout = "" => ran[i] # NotRun

\* C7, amended: for a should-run or should-panic task, output of the
\* compiler with a character that is not whitespace gives the compile-error
\* failure without a run of the artifact, and empty or whitespace-only
\* output lets the task run the artifact and return its verifier's outcome;
\* a should-assert task raises AssertionError after compiling, whatever the
\* compiler printed.
C7_BlankOutputIsSuccess ==
    \A i \in Tasks :
        Done(i) =>
            /\ tests[i].test \in {"should-run", "should-panic"} /\ ~Blank(corpus[i].cout) =>
                   returned[i] = Fail("error from compiler!") /\ ran[i] = NotRun
            /\ tests[i].test \in {"should-run", "should-panic"} /\ Blank(corpus[i].cout) =>
                   ran[i] = OwnRun(i) /\ returned[i] # Fail("error from compiler!")
            /\ tests[i].test = "should-assert" =>
                   returned[i] = Raise("AssertionError") /\ ran[i] = NotRun

\* C7's case: the compiler printed whitespace only and the artifact ran.
C7_Witness ==
    \E i \in Tasks :
        /\ Done(i)
        /\ corpus[i].cout # ""
        /\ Blank(corpus[i].cout)
        /\ ran[i] = OwnRun(i)

\* C8: a should-assert test yields the outcome the same test declared
\* should-panic yields: the compile-error failure, or the outcome of
\* execute_should_panic on the artifact's stderr.
C8_ShouldAssertAsShouldPanic ==
    \A i \in Tasks :
        Done(i) /\ tests[i].test = "should-assert" =>
            returned[i] = execute_test("should-panic", tests[i].args,
                                       corpus[i].cout, OwnRun(i))

\* C9: a second run of the harness on the same corpus, compiler and
\* artifacts ends with the per-file outcomes of the first run.
C9_SameOutcomesEveryRun ==
    (pc = "exit" /\ run > 1) => results = prev[1].results

\* The pass/fail line and the failure block of the i-th discovered test.
Verdict(i) ==
    [kind |-> IF returned[i] = None THEN "passed" ELSE "failed",
     path |-> corpus[i].name]

Block(i) ==
    [kind |-> "failure", path |-> corpus[i].name,
     type |-> DeclaredType(corpus[i].text), reason |-> returned[i].reason]

\* The failure blocks of the failing tests among the first n, in discovery
\* order.
RECURSIVE Blocks(_)
Blocks(n) ==
    IF n = 0 THEN <<>>
    ELSE IF returned[n] = None THEN Blocks(n - 1)
    ELSE Append(Blocks(n - 1), Block(n))

ExpectedReport == [i \in 1..Len(corpus) |-> Verdict(i)] \o Blocks(Len(corpus))

\* C10: what a run that got its results has printed is always a prefix of:
\* one pass/fail line per discovered test in discovery order, then one block
\* (path, type, reason) per failing test in discovery order; no block is
\* printed before the last line, and a run that completes printed all of it.
C10_ReportThenDetails ==
    Reporting =>
        /\ Len(printed) <= Len(ExpectedReport)
        /\ printed = SubSeq(ExpectedReport, 1, Len(printed))
        /\ pc = "report" => Len(printed) <= Len(corpus)
        /\ pc = "details" => Len(printed) >= Len(corpus)
        /\ pc \in {"cleanup", "exit"} => printed = ExpectedReport

\* C10's case: a completed run over two failing tests and their two blocks.
C10_Witness ==
    /\ pc = "exit"
    /\ error = "none"
    /\ Len(corpus) = 2
    /\ returned[1] # None
    /\ returned[2] # None
    /\ returned[1] # returned[2]
    /\ Len(printed) = 4

\* C11: the exit status of the harness is non-zero when the outcome of at
\* least one test is a failure, and zero when every test passed.
C11_ExitStatusReflectsFailures ==
    (pc = "exit" /\ error = "none") =>
        (exit_status # 0 <=> \E i \in 1..Len(results) : results[i] # None)

\* C12: a task that has not finished (its compiler or its artifact is still
\* to run or running) finds the workspace directory in place: the directory
\* exists before any subprocess starts and is removed only when every task
\* submitted to the pool is done, also after a task raised.
C12_WorkspaceBracketsPool ==
    /\ (\E i \in Tasks : tpc[i] # "done") => dir /\ pc = "pool" /\ removed = <<>>
    /\ removed # <<>> => \A i \in Tasks : tpc[i] = "done"

\* C12's case: the task that finished first raised, the other task finished
\* after it, and the workspace was removed.
C12_Witness ==
    /\ Len(finished) = 2
    /\ IsRaise(returned[finished[1]])
    /\ ~IsRaise(returned[finished[2]])
    /\ removed = <<"handler">>
    /\ ~dir

\* C13: the run finishes with an outcome for every task and with the
\* workspace removed; stated of the state in which main has ended.
C13_FinishesWithOutcomes ==
    pc = "exit" =>
        /\ Len(results) = Len(tpc)
        /\ \A i \in Tasks : results[i] = None \/ "reason" \in DOMAIN results[i]
        /\ ~dir

\* C14: a failure of one task leaves the reported outcome of every other
\* task in place.  Stated for the runs whose tests all have a verifier
\* (should-run, should-panic): every task that returned an outcome has its
\* pass/fail line when main has ended, also when another task raised in its
\* verifier.
C14_FailureIsolated ==
    (/\ pc = "exit"
     /\ Len(tpc) = Len(corpus)
     /\ \A i \in Tasks : tests[i].test \in {"should-run", "should-panic"})
    => \A i \in Tasks : ~IsRaise(returned[i]) => HasLine(corpus[i].name)

Quoted(text) == Backquote \o text \o Backquote

\* The reason names the field, then the expected and then the actual value.
Names3(reason, field, expected, actual) ==
    /\ Occurs(reason, field, 1)
    /\ index(reason, "expected " \o Quoted(expected), 1) # 0
    /\ index(reason, "got " \o Quoted(actual), 1)
           > index(reason, "expected " \o Quoted(expected), 1)

\* C15: the failure reason of a should-run test names the field that did
\* not match with the expected and the actual value; a differing exit code
\* is reported whatever the stdout is, and a differing stdout only when the
\* exit code matches.
C15_ReturnCodeFirst ==
    \A i \in Tasks :
        Compiled(i, "should-run") /\ is_int(tests[i].args[1]) =>
            LET returns == tests[i].args[1]
                outputs == tests[i].args[2]
            IN  /\ corpus[i].code # int(returns) =>
                       /\ "reason" \in DOMAIN returned[i]
                       /\ Names3(returned[i].reason, "return code", returns,
                                 str(corpus[i].code))
                /\ (/\ corpus[i].code = int(returns)
                    /\ outputs # "none"
                    /\ outputs # corpus[i].sout) =>
                       /\ "reason" \in DOMAIN returned[i]
                       /\ Names3(returned[i].reason, "output", outputs,
                                 corpus[i].sout)

\* C15's case: exit code and stdout both differ from what is expected, and
\* the task is done.
C15_Witness ==
    \E i \in Tasks :
        /\ Compiled(i, "should-run")
        /\ is_int(tests[i].args[1])
        /\ corpus[i].code # int(tests[i].args[1])
        /\ tests[i].args[2] # "none"
        /\ tests[i].args[2] # corpus[i].sout

\* read_test raises for the file.
Unreadable(text) == IsRaise(read_test(text))

\* C16: in a run over a corpus with a file for which read_test raises, the
\* pool is never started: no task exists, no artifact is written, no
\* pass/fail line is printed, and once the error has left main the
\* workspace is removed (when the run made the workspace at all).
C16_ParsedBeforePool ==
    (\E j \in 1..Len(corpus) : Unreadable(corpus[j].text)) =>
        /\ pc \in {"mkdir", "walk", "handler", "exit"}
        /\ tpc = <<>>
        /\ DOMAIN files \subseteq DOMAIN Leftover
        /\ \A k \in 1..Len(printed) : printed[k].kind \notin {"passed", "failed"}
        /\ (pc = "exit" /\ error # "FileExistsError") => ~dir /\ error # "none"

\* C16's case: the first file was read, read_test raised for the second,
\* and main has ended.
C16_Witness ==
    /\ pc = "exit"
    /\ Len(corpus) = 2
    /\ Len(tests) = 1
    /\ Unreadable(corpus[2].text)
    /\ error = "AssertionError"
    /\ ~dir

\* C17: when the directory __tmp is there as main starts (it holds the
\* leftover), main ends with FileExistsError at os.mkdir: no file is
\* discovered, no task is started, nothing is printed, rmtree is not called,
\* and the directory and what it holds stay as they were.
C17_ExistingWorkspaceUntouched ==
    /\ (pc = "mkdir" /\ dir) => files = Leftover
    /\ "__tmp/leftover" \in DOMAIN files =>
           /\ dir
           /\ files = Leftover
           /\ pc \in {"mkdir", "exit"}
           /\ pc = "exit" => error = "FileExistsError"
           /\ tests = <<>>
           /\ tpc = <<>>
           /\ printed = <<>>
           /\ removed = <<>>

\* C17's case: main has ended on a corpus with a test, the directory was
\* there before.
C17_Witness ==
    /\ pc = "exit"
    /\ error = "FileExistsError"
    /\ Len(corpus) > 0
    /\ files = Leftover

\* C18: on a path through the try statement rmtree is called exactly once:
\* by the handler alone when an exception left the try block, by line 152
\* alone when the block ended normally, and not before.
C18_RemovedOnce ==
    /\ Len(removed) <= 1
    /\ pc \in {"walk", "pool", "report", "details", "handler", "cleanup"} =>
           removed = <<>>
    /\ (pc = "exit" /\ error \notin {"none", "FileExistsError"}) =>
           removed = <<"handler">>
    /\ (pc = "exit" /\ error = "none") => removed = <<"cleanup">>

\* C18's case: an exception of a pool task left the try block and main has
\* ended.
C18_Witness ==
    /\ pc = "exit"
    /\ Len(tpc) > 0
    /\ error # "none"
    /\ removed = <<"handler">>

====
